---- MODULE Spec2Model ----
(***************************************************************************)
(* A model of the astdys package (src/astdys): the class-level state of    *)
(* AstDys (catalog_type, catalogs, catalogs_configs), the files of the     *)
(* cache directory, the public operations search, search_by_axis, load,    *)
(* get_catalog, set_type, rebuild, get_catalog_time, get_catalog_datetime, *)
(* the internal _build / _transform_astdys_catalog, and the conversions of *)
(* util.py (convert_mjd_to_datetime, convert_mjd_to_date).                 *)
(*                                                                         *)
(* Conventions.                                                            *)
(*   - A Python str is a sequence of one-character strings, so that        *)
(*     str(), quote stripping and number parsing are computed.             *)
(*   - A Python argument is PyInt(n) or PyStr(s).                          *)
(*   - A table cell is Num(n) (a number, in hundredths), Rad(n) (the       *)
(*     number n * pi / 180, n in hundredths of a degree), Txt(s) (text) or *)
(*     NaN (a missing value).                                              *)
(*   - An operation of the class is an operator from a machine state       *)
(*     [catalog_type, catalogs, disk, configs, trace, error, ret] to a     *)
(*     machine state; the actions Call_* apply one operation to the        *)
(*     current state.                                                      *)
(***************************************************************************)
EXTENDS Integers, Sequences, FiniteSets, TLC

VARIABLES
    catalog_type,   \* AstDys.catalog_type
    catalogs,       \* AstDys.catalogs: catalog type -> loaded table
    disk,           \* the files of the working directory: path -> content
    configs,        \* AstDys.catalogs_configs: catalog type -> descriptor
    call,           \* the last call: its name, arguments, outcome and I/O trace
    pre             \* catalog_type, catalogs and disk as they were before it

vars == <<catalog_type, catalogs, disk, configs, call, pre>>

\* ------------------------------------------------------------------ bounds

\* search() is called with the ints 1..MaxInt
MaxInt == 2
\* search() is called with lists of at most MaxBatch identifiers
MaxBatch == 2

\* -------------------------------------------------------------------- text

Digits == <<"0", "1", "2", "3", "4", "5", "6", "7", "8", "9">>

IsDigit(c) == \E i \in 1..Len(Digits) : Digits[i] = c

DigitVal(c) == (CHOOSE i \in 1..Len(Digits) : Digits[i] = c) - 1

RECURSIVE NatStr(_)
NatStr(n) == IF n < Len(Digits) THEN <<Digits[n + 1]>>
             ELSE NatStr(n \div Len(Digits)) \o <<Digits[(n % Len(Digits)) + 1]>>

IntStr(n) == IF n < 0 THEN <<"-">> \o NatStr(0 - n) ELSE NatStr(n)

RECURSIVE NatVal(_)
NatVal(s) == IF s = <<>> THEN 0
             ELSE NatVal(SubSeq(s, 1, Len(s) - 1)) * Len(Digits) + DigitVal(s[Len(s)])

\* text that float() accepts (here: an optional sign and digits)
IsNumeric(s) ==
    LET body == IF s # <<>> /\ s[1] = "-" THEN Tail(s) ELSE s
    IN  body # <<>> /\ \A i \in 1..Len(body) : IsDigit(body[i])

NumVal(s) == IF s[1] = "-" THEN 0 - NatVal(Tail(s)) ELSE NatVal(s)

\* ------------------------------------------------------------------ values

PyInt(n) == [t |-> "int", n |-> n]
PyStr(s) == [t |-> "str", s |-> s]
PyList(items) == [t |-> "list", items |-> items]

Num(n) == [k |-> "num", n |-> n]
Rad(n) == [k |-> "rad", n |-> n]
Txt(s) == [k |-> "txt", s |-> s]
NaN == [k |-> "nan"]

\* the absent value (_catalog() of a type that is not loaded, search() of an
\* identifier that is not there, the return value of load, set_type, ...)
None == [k |-> "None"]

\* Python's str() of an int or a str
str(v) == IF v.t = "int" THEN IntStr(v.n) ELSE v.s

\* ------------------------------------------------------------- descriptors

OSCULATING_CATALOG ==
    [original_filename |-> "cache/allnum.cat",
     filename          |-> "cache/allnum.csv",
     url               |-> "https://newton.spacedys.com/~astdys2/catalogs/allnum.cat",
     catalog_type      |-> "osculating",
     skip_rows         |-> 6,
     columns           |-> <<"name", "epoch", "a", "e", "inc", "Omega", "omega", "M",
                             "del_1", "del_2", "del_3">>,
     degree_columns    |-> <<"inc", "Omega", "omega", "M">>]

SYNTHETIC_CATALOG ==
    [original_filename |-> "cache/all.syn",
     filename          |-> "cache/allsyn.csv",
     url               |-> "https://newton.spacedys.com/~astdys2/propsynth/all.syn",
     catalog_type      |-> "synthetic",
     skip_rows         |-> 2,
     columns           |-> <<"name", "mag", "a", "e", "sinI", "n", "g", "s", "lce", "my">>,
     degree_columns    |-> <<"sinI", "n">>]

catalogs_configs ==
    [t \in {"osculating", "synthetic"} |->
        IF t = "osculating" THEN OSCULATING_CATALOG ELSE SYNTHETIC_CATALOG]

\* col.startswith('del_'), for the column names of the descriptors
startswith_del(col) == col \in {"del_1", "del_2", "del_3"}

\* ------------------------------------------------------------------ tables

\* A table (a pandas DataFrame) is [columns, rows]: the column names in order
\* and the rows in order, each row a sequence of cells aligned with columns.
Table(columns, rows) == [k |-> "table", columns |-> columns, rows |-> rows]

\* A raised exception, as the value of a computation that did not finish.
Error(e) == [k |-> "error", e |-> e]

IsError(v) == v.k = "error"

ColIndex(columns, col) == CHOOSE i \in 1..Len(columns) : columns[i] = col

HasColumn(t, col) == \E i \in 1..Len(t.columns) : t.columns[i] = col

\* row.to_dict(): column name -> cell
RowDict(t, r) ==
    [c \in {t.columns[i] : i \in 1..Len(t.columns)} |-> r[ColIndex(t.columns, c)]]

Max(a, b) == IF a >= b THEN a ELSE b

\* the indices of the columns, in order
Indices(columns) == [i \in 1..Len(columns) |-> i]

\* the table restricted to the columns at the indices idx, in that order
Project(t, idx) ==
    Table([j \in 1..Len(idx) |-> t.columns[idx[j]]],
          [r \in 1..Len(t.rows) |-> [j \in 1..Len(idx) |-> t.rows[r][idx[j]]]])

\* --------------------------------------------------------- time conversion
\* (src/astdys/util.py, on the datetime module's proleptic Gregorian calendar)

\* A datetime.datetime whose time of day is a whole number of seconds.
DateTime(y, m, d, secs) ==
    [k |-> "datetime", year |-> y, month |-> m, day |-> d,
     hour |-> secs \div 3600, minute |-> (secs % 3600) \div 60, second |-> secs % 60]

IsLeap(y) == y % 4 = 0 /\ (y % 100 # 0 \/ y % 400 = 0)

DaysInMonth(y, m) ==
    IF m = 2 THEN (IF IsLeap(y) THEN 29 ELSE 28)
    ELSE IF m \in {4, 6, 9, 11} THEN 30 ELSE 31

\* the number of days before January 1st of year y
DaysBeforeYear(y) ==
    (y - 1) * 365 + (y - 1) \div 4 - (y - 1) \div 100 + (y - 1) \div 400

RECURSIVE DaysBeforeMonth(_, _)
DaysBeforeMonth(y, m) ==
    IF m = 1 THEN 0 ELSE DaysBeforeMonth(y, m - 1) + DaysInMonth(y, m - 1)

\* date.toordinal(): 0001-01-01 is day 1
toordinal(y, m, d) == DaysBeforeYear(y) + DaysBeforeMonth(y, m) + d

\* datetime.min and datetime.max, as ordinals
MINORDINAL == toordinal(1, 1, 1)
MAXORDINAL == toordinal(9999, 12, 31)

\* the year of the day of ordinal n: the 400-, 100-, 4- and 1-year cycles
\* before it, the last day of a cycle belonging to the year that ends it
YearOf(n) ==
    ((n - 1) \div DaysBeforeYear(401)) * 400
    + (IF ((n - 1) % DaysBeforeYear(401)) \div DaysBeforeYear(101) = 4 THEN 400
       ELSE (((n - 1) % DaysBeforeYear(401)) \div DaysBeforeYear(101)) * 100
            + ((((n - 1) % DaysBeforeYear(401)) % DaysBeforeYear(101))
                   \div DaysBeforeYear(5)) * 4
            + (IF ((((n - 1) % DaysBeforeYear(401)) % DaysBeforeYear(101))
                       % DaysBeforeYear(5)) \div 365 = 4 THEN 4
               ELSE ((((n - 1) % DaysBeforeYear(401)) % DaysBeforeYear(101))
                       % DaysBeforeYear(5)) \div 365 + 1))

\* the month of the day that is the dayofyear-th day of year y
MonthOf(y, dayofyear) ==
    CHOOSE m \in 1..12 :
        /\ DaysBeforeMonth(y, m) < dayofyear
        /\ dayofyear <= DaysBeforeMonth(y, m) + DaysInMonth(y, m)

\* the day of ordinal n, secs seconds after midnight, as a datetime
ymd_of(n, y, secs) ==
    DateTime(y, MonthOf(y, n - DaysBeforeYear(y)),
             n - DaysBeforeYear(y) - DaysBeforeMonth(y, MonthOf(y, n - DaysBeforeYear(y))),
             secs)

\* fromordinal without the limits of datetime
fromordinal_unchecked(n, secs) == ymd_of(n, YearOf(n), secs)

\* datetime.fromordinal(n) plus secs seconds; outside datetime.min ..
\* datetime.max the addition raises OverflowError (date value out of range)
fromordinal(n, secs) ==
    IF n < MINORDINAL \/ n > MAXORDINAL THEN Error("OverflowError")
    ELSE ymd_of(n, YearOf(n), secs)

\* base_date = datetime.datetime(1858, 11, 17)
base_date == DateTime(1858, 11, 17, 0)

\* the seconds of one hundredth of a day
CentidaySeconds == (24 * 3600) \div 100

\* base_date + datetime.timedelta(days=mjd), mjd a number in hundredths of a
\* day: the whole days are added to the date and the rest is the time of day
add_days(base, mjd) ==
    fromordinal(toordinal(base.year, base.month, base.day) + mjd \div 100,
                (mjd % 100) * CentidaySeconds)

\* convert_mjd_to_datetime(mjd), mjd a float: a missing value (nan) cannot be
\* converted by timedelta (ValueError), and text is no number (TypeError)
convert_mjd_to_datetime(mjd) ==
    IF mjd.k = "nan" THEN Error("ValueError")
    ELSE IF mjd.k # "num" THEN Error("TypeError")
    ELSE add_days(base_date, mjd.n)

\* the decimal digits of n, zero-padded to the width w
RECURSIVE Pad(_, _)
Pad(n, w) == IF Len(NatStr(n)) >= w THEN NatStr(n) ELSE <<"0">> \o Pad(n, w - 1)

\* The C libraries a process may run on: strftime's %Y is the year as the C
\* library prints it, which glibc does without leading zeros and the others
\* do with four digits.
Platforms == {"glibc", "other"}

\* %Y
year_text(y, libc) == IF libc = "glibc" THEN NatStr(y) ELSE Pad(y, 4)

\* dt.strftime("%Y-%m-%d %H:%M:%S")
strftime(dt, libc) ==
    IF IsError(dt) THEN dt
    ELSE Txt(year_text(dt.year, libc) \o <<"-">> \o Pad(dt.month, 2) \o <<"-">>
             \o Pad(dt.day, 2) \o <<" ">> \o Pad(dt.hour, 2) \o <<":">>
             \o Pad(dt.minute, 2) \o <<":">> \o Pad(dt.second, 2))

\* convert_mjd_to_date(mjd)
convert_mjd_to_date(mjd, libc) == strftime(convert_mjd_to_datetime(mjd), libc)

\* ------------------------------------------------------------------- files

\* A raw catalog file is a sequence of lines, each line the sequence of its
\* whitespace-delimited fields: Num(n) for a numeric literal, Txt(s) for any
\* other text.  A cached file is the CSV text of a table: its header and,
\* per row, its fields (Txt(<<>>) is the empty field).
RawFile(lines) == [k |-> "raw", lines |-> lines]
CsvFile(columns, rows) == [k |-> "csv", columns |-> columns, rows |-> rows]

\* -------------------------------------------------------- catalog transform

\* Each step of the transform takes the table of the step before it, or the
\* error that step raised, which it passes on.

\* text that read_csv takes for a number
IsNumericField(f) == f.k \in {"num", "rad"} \/ (f.k = "txt" /\ IsNumeric(f.s))

\* the fields of the i-th column of the lines are all numbers (a line that
\* ends before the column has no field there)
NumericColumn(data, i) ==
    \A r \in 1..Len(data) : i <= Len(data[r]) => IsNumericField(data[r][i])

\* one field of the raw file, as read_csv types it in the column named col,
\* numeric telling whether all the fields of the column are numbers: the
\* column 'name' is text (dtype={'name': str}); any other column is numeric
\* when all its fields are, and text otherwise
raw_cell(line, i, col, numeric) ==
    IF i > Len(line) THEN NaN
    ELSE IF col = "name" \/ ~numeric
    THEN (IF line[i].k = "num" THEN Txt(IntStr(line[i].n)) ELSE line[i])
    ELSE IF line[i].k = "txt" THEN Num(NumVal(line[i].s))
    ELSE line[i]

\* the data lines of a raw file as a table with the column names names: the
\* expected width is the larger of the first data line's width and
\* len(names); a longer line is a ParserError, a shorter one is padded with
\* NaN, and fields beyond len(names) are dropped (index_col=False)
parse_lines(data, names) ==
    IF \E r \in 1..Len(data) : Len(data[r]) > Max(Len(data[1]), Len(names))
    THEN Error("ParserError")
    ELSE Table(names,
               [r \in 1..Len(data) |->
                   [i \in 1..Len(names) |->
                       raw_cell(data[r], i, names[i], NumericColumn(data, i))]])

\* pd.read_csv(raw, sep="\s+", header=None, skiprows=.., names=..,
\*             index_col=False, dtype={'name': str})
read_raw(file, cfg) ==
    parse_lines(SubSeq(file.lines, cfg.skip_rows + 1, Len(file.lines)), cfg.columns)

strip(c) == IF c.k = "txt" THEN Txt(SelectSeq(c.s, LAMBDA ch : ch # "'")) ELSE c

\* catalog.replace("'", '', regex=True)
strip_quotes(t) ==
    IF IsError(t) THEN t
    ELSE Table(t.columns,
               [r \in 1..Len(t.rows) |->
                   [i \in 1..Len(t.columns) |-> strip(t.rows[r][i])]])

\* catalog.drop(columns=[col for col in catalog.columns if col.startswith('del_')])
drop_del(t) ==
    IF IsError(t) THEN t
    ELSE Project(t, SelectSeq(Indices(t.columns),
                              LAMBDA i : ~startswith_del(t.columns[i])))

\* astype(float) accepts the cell
CanFloat(c) == c.k \in {"num", "nan"} \/ (c.k = "txt" /\ IsNumeric(c.s))

\* float(cell) * np.pi / 180
to_radians(c) ==
    IF c.k = "num" THEN Rad(c.n)
    ELSE IF c.k = "txt" THEN Rad(NumVal(c.s))
    ELSE c

IsDegree(col, degree_columns) ==
    \E d \in 1..Len(degree_columns) : degree_columns[d] = col

\* for col in degree_columns: catalog[col] = catalog[col].astype(float) * np.pi / 180
convert_degrees(t, degree_columns) ==
    IF IsError(t) THEN t
    ELSE IF \E d \in 1..Len(degree_columns) : ~HasColumn(t, degree_columns[d])
    THEN Error("KeyError")
    ELSE IF \E r \in 1..Len(t.rows), i \in 1..Len(t.columns) :
                IsDegree(t.columns[i], degree_columns) /\ ~CanFloat(t.rows[r][i])
    THEN Error("ValueError")
    ELSE Table(t.columns,
               [r \in 1..Len(t.rows) |->
                   [i \in 1..Len(t.columns) |->
                       IF IsDegree(t.columns[i], degree_columns)
                       THEN to_radians(t.rows[r][i]) ELSE t.rows[r][i]]])

\* epoch_last leaving the columns in the order of the file
epoch_in_place(t) == t

\* if 'epoch' in catalog.columns: move it to the end
epoch_last(t) ==
    IF IsError(t) THEN t
    ELSE IF HasColumn(t, "epoch")
    THEN Project(t, SelectSeq(Indices(t.columns), LAMBDA i : t.columns[i] # "epoch")
                    \o <<ColIndex(t.columns, "epoch")>>)
    ELSE t

\* AstDys._transform_astdys_catalog, as a function of the raw file and the
\* descriptor: the transformed table, or the error raised
_transform_astdys_catalog(file, cfg) ==
    epoch_last(convert_degrees(drop_del(strip_quotes(read_raw(file, cfg))),
                               cfg.degree_columns))

\* cat.to_csv(filename, index=False): a missing value is written as the
\* empty field
to_csv(t) ==
    CsvFile(t.columns,
            [r \in 1..Len(t.rows) |->
                [i \in 1..Len(t.columns) |->
                    IF t.rows[r][i].k = "nan" THEN Txt(<<>>) ELSE t.rows[r][i]]])

IsEmptyField(f) == f.k = "txt" /\ f.s = <<>>

\* one field of a CSV file, as read_csv types it in the column named col,
\* numeric telling whether all the fields of the column are numeric
csv_cell(f, col, numeric) ==
    IF IsEmptyField(f) THEN NaN
    ELSE IF col = "name" \/ ~numeric
    THEN (IF f.k = "num" THEN Txt(IntStr(f.n)) ELSE f)
    ELSE IF f.k = "txt" THEN Num(NumVal(f.s))
    ELSE f

\* pd.read_csv(filename, dtype={'name': str}): the column 'name' is read as
\* text; any other column is numeric when all its fields are, and text
\* otherwise; the empty field is a missing value
read_csv(file) ==
    Table(file.columns,
          [r \in 1..Len(file.rows) |->
              [i \in 1..Len(file.columns) |->
                  csv_cell(file.rows[r][i], file.columns[i],
                           \A r2 \in 1..Len(file.rows) :
                               IsEmptyField(file.rows[r2][i])
                               \/ IsNumericField(file.rows[r2][i]))]])

\* --------------------------------------------------------------- the remote

Chars1 == <<"1">>
Chars2 == <<"2">>
Quoted(s) == <<"'">> \o s \o <<"'">>
Desig == <<"2", "0", "1", "7", "H", "V", "1">>

CommentLine == <<Txt(<<"%">>)>>

\* the server publishes a catalog and, later, its update
Versions == {1, 2}

\* Version v of the file the server publishes at url: the header lines and
\* two bodies.  The osculating file quotes its identifiers.
Server(url, v) ==
    IF url = OSCULATING_CATALOG.url
    THEN RawFile([i \in 1..OSCULATING_CATALOG.skip_rows |-> CommentLine] \o
            << <<Txt(Quoted(Chars1)), Num(5920000 + v), Num(276 + v), Num(8),
                 Num(1059), Num(8026), Num(7363), Num(16268), Num(0), Num(0), Num(0)>>,
               <<Txt(Quoted(Desig)), Num(5920000 + v), Num(260), Num(20),
                 Num(1474), Num(13864), Num(23971), Num(24294), Num(0), Num(0), Num(0)>> >>)
    ELSE RawFile([i \in 1..SYNTHETIC_CATALOG.skip_rows |-> CommentLine] \o
            << <<Txt(Chars1), Num(334), Num(2276 + v), Num(12), Num(17), Num(7825),
                 Num(5407), Num(0 - 5917), Num(2), Num(0)>>,
               <<Txt(Chars2), Num(413), Num(277), Num(28), Num(55), Num(7804),
                 Num(0 - 135), Num(0 - 4630), Num(1), Num(0)>> >>)

\* What an interrupted download of version 1 leaves on disk: the file up to
\* the middle of a number of its last line (a number cut after its exponent
\* mark is not numeric text).
Partial(url) ==
    LET full == Server(url, 1).lines
        last == full[Len(full)]
    IN  RawFile(SubSeq(full, 1, Len(full) - 1) \o
                <<SubSeq(last, 1, 4) \o <<Txt(<<"1", "E">>)>> >>)

\* The outcomes of one urlretrieve(url, filename): the whole file of some
\* version is saved; or the call raises and leaves no file; or the call raises
\* and leaves the part it had written.
NetOutcomes(url) ==
    {[ok |-> TRUE, body |-> Server(url, v)] : v \in Versions}
    \cup {[ok |-> FALSE, body |-> None], [ok |-> FALSE, body |-> Partial(url)]}

\* ----------------------------------------------------------- machine states

\* An operation takes the machine state [catalog_type, catalogs, disk,
\* configs, trace, error, ret] it starts in to the one it ends in; trace lists its calls and
\* its I/O in order, error is the exception it raised ("none" if it
\* returned) and ret the value it returned.  A step of an operation takes the
\* state the step before it ended in, and passes a raised exception on.

EmptyMap == [x \in {} |-> None]

Put(m, key, val) == [x \in DOMAIN m \cup {key} |-> IF x = key THEN val ELSE m[x]]

Remove(m, key) == [x \in DOMAIN m \ {key} |-> m[x]]

Machine(ct, cs, d) ==
    [catalog_type |-> ct, catalogs |-> cs, disk |-> d, configs |-> catalogs_configs,
     trace |-> <<>>, error |-> "none", ret |-> None]

\* the machine state s of a process whose descriptors are those of registry
WithConfigs(s, registry) == [s EXCEPT !.configs = registry]

Failed(s) == s.error # "none"

Raise(s, e) == [s EXCEPT !.error = e]

Emit(s, event) == [s EXCEPT !.trace = Append(@, event)]

Return(s, v) == [s EXCEPT !.ret = v]

\* Path(p).exists()
exists(s, p) == p \in DOMAIN s.disk

\* -------------------------------------------------------------- AstDys

\* AstDys._catalog
_catalog(s) ==
    IF s.catalog_type \in DOMAIN s.catalogs THEN s.catalogs[s.catalog_type] ELSE None

\* AstDys._catalog_config
_catalog_config(s) ==
    IF s.catalog_type \in DOMAIN s.configs
    THEN s.configs[s.catalog_type] ELSE None

\* AstDys._astdys_full_filename (None has no original_filename)
_astdys_full_filename(s) == _catalog_config(s).original_filename

\* AstDys._catalog_full_filename (None has no filename)
_catalog_full_filename(s) == _catalog_config(s).filename

\* urllib.request.urlretrieve(url, filename)
urlretrieve(s, url, filename, net) ==
    IF net.ok THEN [Emit(s, "urlretrieve") EXCEPT !.disk = Put(@, filename, net.body)]
    ELSE IF net.body = None THEN Raise(Emit(s, "urlretrieve"), "Exception")
    ELSE Raise([Emit(s, "urlretrieve") EXCEPT !.disk = Put(@, filename, net.body)],
               "Exception")

\* fetch_if_missing without the test of line 248: the file is downloaded even
\* when it is there
fetch_always(s, net) ==
    IF _catalog_config(s) = None THEN Raise(s, "AttributeError")
    ELSE urlretrieve(s, _catalog_config(s).url, _catalog_config(s).original_filename, net)

\* _build, lines 247-257: download the raw file if it is not there
fetch_if_missing(s, net) ==
    IF _catalog_config(s) = None THEN Raise(s, "AttributeError")
    ELSE IF ~exists(s, _astdys_full_filename(s))
    THEN urlretrieve(s, _catalog_config(s).url, _catalog_config(s).original_filename, net)
    ELSE s

\* write_csv opening the file before the transform is known to have
\* succeeded: a raised transform leaves an empty CSV
write_csv_early(s, cat) ==
    IF IsError(cat)
    THEN Raise([s EXCEPT !.disk = Put(@, _catalog_full_filename(s), CsvFile(<<>>, <<>>))],
               cat.e)
    ELSE [Emit(s, "to_csv") EXCEPT !.disk = Put(@, _catalog_full_filename(s), to_csv(cat))]

\* _build, line 260: write the transformed table, unless the transform raised
write_csv(s, cat) ==
    IF IsError(cat) THEN Raise(s, cat.e)
    ELSE [Emit(s, "to_csv") EXCEPT !.disk = Put(@, _catalog_full_filename(s), to_csv(cat))]

\* _build, lines 259-260
transform_and_write(s) ==
    IF Failed(s) THEN s
    ELSE write_csv(Emit(s, "_transform_astdys_catalog"),
                   _transform_astdys_catalog(s.disk[_astdys_full_filename(s)],
                                             _catalog_config(s)))

\* AstDys._build
_build(s, net) == transform_and_write(fetch_if_missing(Emit(s, "_build"), net))

\* the condition under which load() builds (lines 119 and 121)
load_builds(s) == _catalog(s) = None /\ ~exists(s, _catalog_full_filename(s))

\* load, lines 118-122
build_if_missing(s, net) ==
    IF _catalog_config(s) = None THEN Raise(s, "AttributeError")
    ELSE IF load_builds(s) THEN _build(s, net)
    ELSE s

\* read_into_memory keeping a table that is already loaded
read_into_memory_cached(s) ==
    IF Failed(s) THEN s
    ELSE IF _catalog(s) # None THEN Emit(s, "read_csv")
    ELSE IF ~exists(s, _catalog_full_filename(s))
    THEN Raise(Emit(s, "read_csv"), "FileNotFoundError")
    ELSE [Emit(s, "read_csv") EXCEPT !.catalogs =
              Put(@, s.catalog_type, read_csv(s.disk[_catalog_full_filename(s)]))]

\* load, line 124
read_into_memory(s) ==
    IF Failed(s) THEN s
    ELSE IF ~exists(s, _catalog_full_filename(s))
    THEN Raise(Emit(s, "read_csv"), "FileNotFoundError")
    ELSE [Emit(s, "read_csv") EXCEPT !.catalogs =
              Put(@, s.catalog_type, read_csv(s.disk[_catalog_full_filename(s)]))]

\* AstDys.load
load(s, net) == read_into_memory(build_if_missing(Emit(s, "load"), net))

\* ensure_loaded calling load() whether a table is loaded or not
ensure_loaded_always(s, net) == load(s, net)

\* ensure_loaded without the call of load()
ensure_loaded_never(s, net) == s

\* if cls._catalog() is None: cls.load()
ensure_loaded(s, net) == IF _catalog(s) = None THEN load(s, net) ELSE s

\* the membership test of set_type (line 156)
is_supported(s, t) == t \in DOMAIN s.configs

\* set_type assigning catalog_type before the membership test
set_type_assign_first(s, t, net) ==
    IF is_supported(s, t) THEN load([s EXCEPT !.catalog_type = t], net)
    ELSE Raise([s EXCEPT !.catalog_type = t], "ValueError")

\* set_type putting the former catalog_type back when the load raised
set_type_rollback(s, t, net) ==
    IF ~is_supported(s, t) THEN Raise(s, "ValueError")
    ELSE IF Failed(load([s EXCEPT !.catalog_type = t], net))
    THEN [load([s EXCEPT !.catalog_type = t], net) EXCEPT !.catalog_type = s.catalog_type]
    ELSE load([s EXCEPT !.catalog_type = t], net)

\* AstDys.set_type
set_type(s, t, net) ==
    IF is_supported(s, t) THEN load([s EXCEPT !.catalog_type = t], net)
    ELSE Raise(s, "ValueError")

\* unlink_raw without the unlink
unlink_raw_never(s) ==
    IF _catalog_config(s) = None THEN Raise(s, "AttributeError") ELSE s

\* rebuild, lines 239-241
unlink_raw(s) ==
    IF _catalog_config(s) = None THEN Raise(s, "AttributeError")
    ELSE IF exists(s, _astdys_full_filename(s))
    THEN [Emit(s, "unlink") EXCEPT !.disk = Remove(@, _astdys_full_filename(s))]
    ELSE s

\* rebuild, line 242
build_after_unlink(s, net) == IF Failed(s) THEN s ELSE _build(s, net)

\* rebuild reading the new cached CSV into memory
rebuild_and_load(s, net) == read_into_memory(build_after_unlink(unlink_raw(s), net))

\* AstDys.rebuild
rebuild(s, net) == build_after_unlink(unlink_raw(s), net)

\* get_catalog, line 144
return_catalog(s) == IF Failed(s) THEN s ELSE Return(s, _catalog(s))

\* AstDys.get_catalog
get_catalog(s, net) == return_catalog(ensure_loaded(s, net))

\* name_is comparing numbers as numbers ("01" is "1")
name_is_numeric(cell, name_str) ==
    /\ cell.k = "txt"
    /\ \/ cell.s = name_str
       \/ IsNumeric(cell.s) /\ IsNumeric(name_str) /\ NumVal(cell.s) = NumVal(name_str)

\* catalog['name'] == name_str, for one cell
name_is(cell, name_str) == cell.k = "txt" /\ cell.s = name_str

\* the value search() returns for one identifier: the first match as a dict
Row(fields) == [k |-> "row", fields |-> fields]

\* the value search() returns for a list: name -> dict
Dict(items) == [k |-> "dict", items |-> items]

\* search, lines 72-74: the first of the matching rows, or None
first_or_none(cat, matches) ==
    IF Len(matches) > 0 THEN Row(RowDict(cat, matches[1])) ELSE None

\* search, lines 70-71
search_one(cat, nm, name_str) ==
    first_or_none(cat, SelectSeq(cat.rows, LAMBDA r : name_is(r[nm], name_str)))

\* search, line 78: a later row of the same name replaces an earlier one
rows_by_name(cat, nm, filtered) ==
    Dict([n \in {filtered[j][nm].s : j \in 1..Len(filtered)} |->
             RowDict(cat, filtered[CHOOSE j \in 1..Len(filtered) :
                                       /\ filtered[j][nm].s = n
                                       /\ \A j2 \in (j + 1)..Len(filtered) :
                                              filtered[j2][nm].s # n])])

\* search_many looking up the first identifier of the list only
search_many_first(cat, nm, name_list) ==
    rows_by_name(cat, nm,
                 SelectSeq(cat.rows, LAMBDA r :
                     \E i \in 1..Len(name_list) : i = 1 /\ name_is(r[nm], name_list[i])))

\* search, lines 76-77
search_many(cat, nm, name_list) ==
    rows_by_name(cat, nm,
                 SelectSeq(cat.rows, LAMBDA r :
                     \E i \in 1..Len(name_list) : name_is(r[nm], name_list[i])))

\* search, lines 69-79, on the loaded table cat
lookup(cat, identifier) ==
    IF identifier.t \in {"int", "str"}
    THEN search_one(cat, ColIndex(cat.columns, "name"), str(identifier))
    ELSE search_many(cat, ColIndex(cat.columns, "name"),
                     [i \in 1..Len(identifier.items) |-> str(identifier.items[i])])

\* search, after the catalog is loaded
search_loaded(s, identifier) ==
    IF Failed(s) THEN s
    ELSE IF _catalog(s) = None THEN Raise(s, "TypeError")
    ELSE IF ~HasColumn(_catalog(s), "name") THEN Raise(s, "KeyError")
    ELSE Return(s, lookup(_catalog(s), identifier))

\* AstDys.search
search(s, identifier, net) == search_loaded(ensure_loaded(s, net), identifier)

\* the default of search_by_axis's sigma, in hundredths
DEFAULT_SIGMA == 10

\* not_positive letting zero through
not_positive_strict(x) == x < 0

\* the test of lines 98 and 100
not_positive(x) == x <= 0

\* in_range with the two bounds left out of the interval
in_range_open(cat, ai, min_axis, max_axis) ==
    Table(cat.columns,
          SelectSeq(cat.rows, LAMBDA r :
              /\ r[ai].k = "num"
              /\ r[ai].n > min_axis
              /\ r[ai].n < max_axis))

\* search_by_axis, lines 106-109, on the loaded table cat
in_range(cat, ai, min_axis, max_axis) ==
    Table(cat.columns,
          SelectSeq(cat.rows, LAMBDA r :
              /\ r[ai].k = "num"
              /\ r[ai].n >= min_axis
              /\ r[ai].n <= max_axis))

\* search_by_axis, after the catalog is loaded
search_by_axis_loaded(s, axis, sigma) ==
    IF Failed(s) THEN s
    ELSE IF _catalog(s) = None THEN Raise(s, "TypeError")
    ELSE IF ~HasColumn(_catalog(s), "a") THEN Raise(s, "KeyError")
    ELSE IF \E r \in 1..Len(_catalog(s).rows) :
                _catalog(s).rows[r][ColIndex(_catalog(s).columns, "a")].k = "txt"
    THEN Raise(s, "TypeError")
    ELSE Return(s, in_range(_catalog(s), ColIndex(_catalog(s).columns, "a"),
                            axis - sigma, axis + sigma))

\* AstDys.search_by_axis
search_by_axis(s, axis, sigma, net) ==
    IF not_positive(axis) THEN Raise(s, "ValueError")
    ELSE IF not_positive(sigma) THEN Raise(s, "ValueError")
    ELSE search_by_axis_loaded(ensure_loaded(s, net), axis, sigma)

\* the value v of a computation that returned, or the exception it raised
Outcome(s, v) == IF IsError(v) THEN Raise(Return(s, None), v.e) ELSE Return(s, v)

\* is_osculating testing the descriptor's columns instead of the type's name
has_epoch_column(s) ==
    /\ _catalog_config(s) # None
    /\ \E i \in 1..Len(_catalog_config(s).columns) :
          _catalog_config(s).columns[i] = "epoch"

\* the test of lines 189 and 212
is_osculating(s) == s.catalog_type = "osculating"

\* cls.search(1), unless the implicit load raised
search_first(s, net) == IF Failed(s) THEN s ELSE search(s, PyInt(1), net)

\* lines 196-197 and 219-220
require_epoch(s) ==
    IF Failed(s) THEN s
    ELSE IF s.ret = None THEN Raise(s, "ValueError")
    ELSE IF "epoch" \notin DOMAIN s.ret.fields THEN Raise(Return(s, None), "ValueError")
    ELSE s

\* line 198
return_date(s, libc) ==
    IF Failed(s) THEN s ELSE Outcome(s, convert_mjd_to_date(s.ret.fields["epoch"], libc))

\* line 221
return_datetime(s) ==
    IF Failed(s) THEN s ELSE Outcome(s, convert_mjd_to_datetime(s.ret.fields["epoch"]))

\* AstDys.get_catalog_time
get_catalog_time(s, net, libc) ==
    IF ~is_osculating(s) THEN Raise(s, "ValueError")
    ELSE return_date(require_epoch(search_first(ensure_loaded(s, net), net)), libc)

\* AstDys.get_catalog_datetime
get_catalog_datetime(s, net) ==
    IF ~is_osculating(s) THEN Raise(s, "ValueError")
    ELSE return_datetime(require_epoch(search_first(ensure_loaded(s, net), net)))

\* ------------------------------------------------------------ the callers

\* the identifiers search() is called with
Idents ==
    {PyInt(n) : n \in 1..MaxInt}
    \cup {PyStr(Chars1), PyStr(<<"0", "1">>), PyStr(Desig),
          PyStr(<<"2", "0", "1", "7", "h", "v", "1">>)}

\* the identifiers the lists are made of
ListIdents == {PyInt(n) : n \in 1..MaxInt} \cup {PyStr(Desig)}

RECURSIVE SeqsUpTo(_, _)
SeqsUpTo(S, n) ==
    IF n = 0 THEN {<<>>}
    ELSE LET shorter == SeqsUpTo(S, n - 1)
         IN  shorter \cup {Append(q, x) : q \in {q0 \in shorter : Len(q0) = n - 1}, x \in S}

\* the (axis, sigma) pairs search_by_axis() is called with, in hundredths
AxisArgs ==
    {<<270, DEFAULT_SIGMA>>, <<270, 5>>, <<100, DEFAULT_SIGMA>>,
     <<0 - 100, DEFAULT_SIGMA>>, <<0, DEFAULT_SIGMA>>, <<100, 0>>, <<270, 0 - 10>>}

\* the queries made while the store goes through its life cycle
FewIdents == {PyInt(1)}
FewLists == {<<PyInt(1), PyInt(2)>>}
FewAxisArgs == {<<270, DEFAULT_SIGMA>>, <<0 - 100, DEFAULT_SIGMA>>, <<100, 0>>}

\* the arguments set_type() is called with
TypeArgs == {"osculating", "synthetic", "bogus"}

NoNet == [ok |-> FALSE, body |-> None]

\* the urls the server answers
Serves(url) == url \in {OSCULATING_CATALOG.url, SYNTHETIC_CATALOG.url}

\* what the network may answer while ct is the current catalog type
Nets(ct) == IF ct \in DOMAIN configs /\ Serves(configs[ct].url)
            THEN NetOutcomes(configs[ct].url) ELSE {NoNet}

Fetched(s) == \E i \in 1..Len(s.trace) : s.trace[i] = "urlretrieve"

\* What the network may answer a call that works on the catalog type ct and
\* that, offline, ends in the machine state offline: the network answers only
\* a call that asks.
Answers(offline, ct) == IF Fetched(offline) THEN Nets(ct) ELSE {NoNet}

Current == WithConfigs(Machine(catalog_type, catalogs, disk), configs)

Snapshot == [catalog_type |-> catalog_type, catalogs |-> catalogs, disk |-> disk]

\* the call op(args) ran from the current state and ended in s
Commit(op, args, s) ==
    /\ catalog_type' = s.catalog_type
    /\ catalogs' = s.catalogs
    /\ disk' = s.disk
    /\ configs' = s.configs
    /\ call' = [op |-> op, args |-> args, error |-> s.error, ret |-> s.ret,
                trace |-> s.trace]
    /\ pre' = Snapshot

NoCall == [op |-> "init", args |-> None, error |-> "none", ret |-> None, trace |-> <<>>]

Init ==
    /\ catalog_type = "osculating"
    /\ catalogs = EmptyMap
    /\ disk = EmptyMap
    /\ configs = catalogs_configs
    /\ call = NoCall
    /\ pre = [catalog_type |-> "osculating", catalogs |-> EmptyMap, disk |-> EmptyMap]

Call_search(idents) ==
    \E identifier \in idents :
        \E net \in Answers(search(Current, identifier, NoNet), catalog_type) :
            Commit("search", identifier, search(Current, identifier, net))

Call_search_list(lists) ==
    \E items \in lists :
        \E net \in Answers(search(Current, PyList(items), NoNet), catalog_type) :
            Commit("search", PyList(items), search(Current, PyList(items), net))

Call_search_by_axis(pairs) ==
    \E a \in pairs :
        \E net \in Answers(search_by_axis(Current, a[1], a[2], NoNet), catalog_type) :
            Commit("search_by_axis", a, search_by_axis(Current, a[1], a[2], net))

Call_load ==
    \E net \in Answers(load(Current, NoNet), catalog_type) :
        Commit("load", None, load(Current, net))

Call_get_catalog ==
    \E net \in Answers(get_catalog(Current, NoNet), catalog_type) :
        Commit("get_catalog", None, get_catalog(Current, net))

Call_get_catalog_time ==
    \E libc \in Platforms :
        \E net \in Answers(get_catalog_time(Current, NoNet, libc), catalog_type) :
            Commit("get_catalog_time", None, get_catalog_time(Current, net, libc))

Call_get_catalog_datetime ==
    \E net \in Answers(get_catalog_datetime(Current, NoNet), catalog_type) :
        Commit("get_catalog_datetime", None, get_catalog_datetime(Current, net))

Call_set_type ==
    \E t \in TypeArgs :
        \E net \in Answers(set_type(Current, t, NoNet), t) :
            Commit("set_type", t, set_type(Current, t, net))

Call_rebuild ==
    \E net \in Answers(rebuild(Current, NoNet), catalog_type) :
        Commit("rebuild", None, rebuild(Current, net))

Call_build ==
    \E net \in Answers(_build(Current, NoNet), catalog_type) :
        Commit("_build", None, _build(Current, net))

\* Another process (a test's teardown, the user) deletes a file of the cache.
Env_unlink ==
    \E p \in DOMAIN disk :
        Commit("env_unlink", p, [Current EXCEPT !.disk = Remove(@, p)])

Next ==
    \/ Call_search(FewIdents)
    \/ Call_search_list(FewLists)
    \/ Call_search_by_axis(FewAxisArgs)
    \/ Call_load
    \/ Call_get_catalog
    \/ Call_get_catalog_time
    \/ Call_get_catalog_datetime
    \/ Call_set_type
    \/ Call_rebuild
    \/ Call_build
    \/ Env_unlink

Spec == Init /\ [][Next]_vars

\* ------------------------------------------------------------ the queries

OscLine(name, a) ==
    <<Txt(name), Num(5920000), Num(a), Num(8), Num(1059), Num(8026), Num(7363),
      Num(16268), Num(0), Num(0), Num(0)>>

SynLine(name, a) ==
    <<Txt(name), Num(334), Num(a), Num(12), Num(17), Num(7825), Num(5407),
      Num(0 - 5917), Num(2), Num(0)>>

\* the files the queries are answered from: identifiers with and without
\* quotes, with a leading zero, in either case, and one that occurs twice
QueryFiles(url) ==
    IF url = OSCULATING_CATALOG.url
    THEN {RawFile([i \in 1..OSCULATING_CATALOG.skip_rows |-> CommentLine] \o
             <<OscLine(Quoted(Chars1), 277), OscLine(Quoted(<<"0", "1">>), 260),
               OscLine(Quoted(Desig), 270), OscLine(Quoted(Chars2), 280)>>),
          RawFile([i \in 1..OSCULATING_CATALOG.skip_rows |-> CommentLine] \o
             <<OscLine(Quoted(Chars2), 265),
               OscLine(Quoted(<<"2", "0", "1", "7", "h", "v", "1">>), 100),
               OscLine(Quoted(Chars2), 275)>>)}
    ELSE {RawFile([i \in 1..SYNTHETIC_CATALOG.skip_rows |-> CommentLine] \o
             <<SynLine(Chars1, 2277), SynLine(Chars2, 277)>>),
          RawFile([i \in 1..SYNTHETIC_CATALOG.skip_rows |-> CommentLine] \o
             <<SynLine(<<"1", "0">>, 261), SynLine(Desig, 279), SynLine(Chars1, 110)>>)}

\* A process whose first call was set_type(t), the download having delivered
\* one of the files above.
InitQuery ==
    \E t \in DOMAIN catalogs_configs :
        \E file \in QueryFiles(catalogs_configs[t].url) :
            /\ catalog_type = t
            /\ catalogs = set_type(Machine("osculating", EmptyMap, EmptyMap), t,
                                   [ok |-> TRUE, body |-> file]).catalogs
            /\ disk = set_type(Machine("osculating", EmptyMap, EmptyMap), t,
                               [ok |-> TRUE, body |-> file]).disk
            /\ configs = catalogs_configs
            /\ call = NoCall
            /\ pre = [catalog_type |-> "osculating", catalogs |-> EmptyMap,
                      disk |-> EmptyMap]

NextQuery ==
    \/ Call_search(Idents)
    \/ Call_search_list(SeqsUpTo(ListIdents, MaxBatch))
    \/ Call_search_by_axis(AxisArgs)

SpecQuery == InitQuery /\ [][NextQuery]_vars

\* ---------------------------------------------------------- the registries

\* the descriptors of the test suite (run_around_tests): the identifier
\* column is named 'num', the files are local and there is no url
catalog1 ==
    [original_filename |-> "tests/small.cat",
     filename          |-> "tests/small.csv",
     url               |-> "",
     catalog_type      |-> "osculating",
     skip_rows         |-> 6,
     columns           |-> <<"num", "epoch", "a", "e", "inc", "Omega", "omega", "M",
                             "del_1", "del_2", "del_3">>,
     degree_columns    |-> <<"inc", "Omega", "omega", "M">>]

catalog2 ==
    [original_filename |-> "tests/proper.cat",
     filename          |-> "tests/proper.csv",
     url               |-> "",
     catalog_type      |-> "synthetic",
     skip_rows         |-> 2,
     columns           |-> <<"num", "mag", "a", "e", "sinI", "n", "del_1", "del_2",
                             "lce", "del_3">>,
     degree_columns    |-> <<"sinI", "n">>]

\* The registries a process runs with: the built-in one, the one of the test
\* suite, and the built-in descriptors registered under each other's key.
Registries ==
    {catalogs_configs,
     [t \in {"osculating", "synthetic"} |->
         IF t = "osculating" THEN catalog1 ELSE catalog2],
     [t \in {"osculating", "synthetic"} |->
         IF t = "osculating" THEN SYNTHETIC_CATALOG ELSE OSCULATING_CATALOG]}

\* a body of the file that cfg describes: a line of the osculating format if
\* cfg has an epoch column, of the synthetic format if not
BodyLine(cfg, name, epoch, a) ==
    IF cfg.columns[2] = "epoch"
    THEN <<name, epoch, Num(a), Num(8), Num(1059), Num(8026), Num(7363),
           Num(16268), Num(0), Num(0), Num(0)>>
    ELSE <<name, Num(334), Num(a), Num(12), Num(17), Num(7825), Num(5407),
           Num(0 - 5917), Num(2), Num(0)>>

Header(cfg) == [i \in 1..cfg.skip_rows |-> CommentLine]

\* the epoch of the catalogs, 59200.0, and one beyond the year 9999
Epoch == Num(5920000)
FarEpoch == Num(300000000)

\* The raw files found at cfg.original_filename: well-formed ones, with
\* quoted and with bare identifiers, with and without the identifier 1; one
\* whose epoch is far in the future; and malformed ones: a line that ends
\* early, a line with a field too many, and every line with a field too many.
RegistryFiles(cfg) ==
    {RawFile(Header(cfg) \o lines) : lines \in
        {<<BodyLine(cfg, Txt(Quoted(Chars1)), Epoch, 277),
           BodyLine(cfg, Txt(Quoted(Desig)), Epoch, 260)>>,
         <<BodyLine(cfg, Txt(<<"0", "1">>), Epoch, 270),
           BodyLine(cfg, Txt(Chars2), Epoch, 280)>>,
         <<BodyLine(cfg, Txt(Chars2), Epoch, 280),
           BodyLine(cfg, Txt(Chars1), FarEpoch, 277)>>,
         <<BodyLine(cfg, Txt(Chars1), Epoch, 277),
           SubSeq(BodyLine(cfg, Txt(Chars2), Epoch, 280), 1, 7)>>,
         <<BodyLine(cfg, Txt(Chars1), Epoch, 277),
           BodyLine(cfg, Txt(Chars2), Epoch, 280) \o <<Num(0)>> >>,
         <<BodyLine(cfg, Txt(Chars1), Epoch, 277) \o <<Num(0)>>,
           BodyLine(cfg, Txt(Chars2), Epoch, 280) \o <<Num(0)>> >>}}

\* A process that runs with one of the registries, the raw file of each
\* descriptor being in place.
InitRegistry ==
    \E registry \in Registries :
        \E osc \in RegistryFiles(registry["osculating"]) :
            \E syn \in RegistryFiles(registry["synthetic"]) :
                /\ catalog_type = "osculating"
                /\ catalogs = EmptyMap
                /\ disk = Put(Put(EmptyMap, registry["osculating"].original_filename, osc),
                              registry["synthetic"].original_filename, syn)
                /\ configs = registry
                /\ call = NoCall
                /\ pre = [catalog_type |-> "osculating", catalogs |-> EmptyMap,
                          disk |-> EmptyMap]

NextRegistry ==
    \/ Call_set_type
    \/ Call_build
    \/ Call_load
    \/ Call_search(Idents)
    \/ Call_get_catalog_time
    \/ Call_get_catalog_datetime

SpecRegistry == InitRegistry /\ [][NextRegistry]_vars

\* ------------------------------------------------------ the time conversion

\* The days the conversions are called with: the ends of datetime's range
\* (0001-01-01 and 9999-12-31) and the days beyond them, a day before the
\* year 1000, the days around the base date, the ends of February in 1900,
\* 2020 and 2100, the turn of the year 2021, and a day far in the future.
MjdDays ==
    {0 - 678576, 0 - 678575, 0 - 313000, 0 - 1, 0, 1, 15020, 15078, 15079,
     58907, 58908, 58909, 59214, 59215, 88127, 88128, 2973483, 2973484, 3000000}

\* the parts of a day they are called with, in hundredths
DayParts == {0, 25, 50, 99}

\* the values of mjd, in hundredths of a day
Mjds == {d * 100 + f : d \in MjdDays, f \in DayParts}

Call_convert_mjd_to_datetime ==
    \E mjd \in Mjds :
        Commit("convert_mjd_to_datetime", Num(mjd),
               Outcome(Current, convert_mjd_to_datetime(Num(mjd))))

Call_convert_mjd_to_date ==
    \E mjd \in Mjds :
        \E libc \in Platforms :
            Commit("convert_mjd_to_date", Num(mjd),
                   Outcome(Current, convert_mjd_to_date(Num(mjd), libc)))

NextTime ==
    \/ Call_convert_mjd_to_datetime
    \/ Call_convert_mjd_to_date

SpecTime == Init /\ [][NextTime]_vars

\* ------------------------------------------------------------- properties

\* the event occurs in the trace of the last call
Did(event) == \E i \in 1..Len(call.trace) : call.trace[i] = event

\* the event occurs exactly once in the trace of the last call
DidOnce(event) == Cardinality({i \in 1..Len(call.trace) : call.trace[i] = event}) = 1

\* in the trace of the last call, every e1 comes before every e2
Before(e1, e2) ==
    \A i, j \in 1..Len(call.trace) :
        call.trace[i] = e1 /\ call.trace[j] = e2 => i < j

Succeeded == call.error = "none"

CsvPath(t) == catalogs_configs[t].filename
RawPath(t) == catalogs_configs[t].original_filename

\* the last call was a query that passed its argument checks
IsQuery ==
    \/ call.op \in {"search", "get_catalog"}
    \/ call.op = "search_by_axis" /\ call.args[1] > 0 /\ call.args[2] > 0

\* no table was loaded for the current catalog type when the last call began
WasUnloaded == pre.catalog_type \notin DOMAIN pre.catalogs

\* C1: a query made while no table is loaded for the current catalog type
\* begins with load(), and if it returns, the table of the current catalog
\* type is in memory and is what load() read from the cached CSV.
C1_ImplicitLoad ==
    IsQuery /\ WasUnloaded =>
        /\ Did("load") /\ call.trace[1] = "load"
        /\ catalog_type = pre.catalog_type
        /\ Succeeded =>
              /\ catalog_type \in DOMAIN catalogs
              /\ Did("read_csv")
              /\ CsvPath(catalog_type) \in DOMAIN disk
              /\ catalogs[catalog_type] = read_csv(disk[CsvPath(catalog_type)])

\* a search on a process that had loaded nothing found its row
C1_Witness ==
    /\ call.op = "search" /\ WasUnloaded /\ Succeeded
    /\ pre.catalogs = EmptyMap
    /\ call.ret # None

\* C2: whenever load() is called while the cached CSV of the current catalog
\* type is missing, a table being loaded or not, it calls _build() before it
\* reads, and if it returns, the table is what it read from the cached CSV.
C2_LoadBuildsMissingCsv ==
    call.op = "load" /\ CsvPath(pre.catalog_type) \notin DOMAIN pre.disk =>
        /\ Did("_build")
        /\ Before("_build", "read_csv")
        /\ Succeeded =>
              /\ CsvPath(catalog_type) \in DOMAIN disk
              /\ catalogs[catalog_type] = read_csv(disk[CsvPath(catalog_type)])

\* C3: after set_type(t) returned for a known t, t is the current catalog
\* type and its table is what this call read from t's cached CSV, whatever was
\* loaded for t before; and a search that returns is answered from the table
\* of the current catalog type.
C3_EagerReload ==
    /\ call.op = "set_type" /\ Succeeded =>
          /\ catalog_type = call.args
          /\ DidOnce("read_csv")
          /\ CsvPath(call.args) \in DOMAIN disk
          /\ catalog_type \in DOMAIN catalogs
          /\ catalogs[call.args] = read_csv(disk[CsvPath(call.args)])
    /\ call.op = "search" /\ Succeeded =>
          /\ catalog_type \in DOMAIN catalogs
          /\ call.ret = lookup(catalogs[catalog_type], call.args)

\* set_type(t) replaced a table that an earlier call had loaded for t by a
\* different one
C3_Witness ==
    /\ call.op = "set_type" /\ Succeeded
    /\ call.args \in DOMAIN pre.catalogs
    /\ pre.catalogs[call.args] # catalogs[call.args]

\* C4: set_type with a catalog type that is no key of catalogs_configs raises
\* ValueError, does no I/O, and leaves catalog_type, catalogs and the files
\* as they were.
C4_UnknownTypeRejected ==
    call.op = "set_type" /\ call.args \notin DOMAIN catalogs_configs =>
        /\ call.error = "ValueError"
        /\ call.trace = <<>>
        /\ catalog_type = pre.catalog_type
        /\ catalogs = pre.catalogs
        /\ disk = pre.disk

\* set_type("bogus") was called on a process with a loaded table and files
C4_Witness ==
    /\ call.op = "set_type" /\ call.args = "bogus"
    /\ pre.catalogs # EmptyMap
    /\ pre.disk # EmptyMap
    /\ pre.catalog_type = "synthetic"

\* the last call loaded the current catalog type from the unloaded state
LoadedFromUnloaded == Did("load") /\ catalog_type \notin DOMAIN pre.catalogs

\* C5: in a load of the current catalog type from the unloaded state: with
\* the cached CSV there, nothing is built or fetched; with the CSV missing and
\* the raw file there, the CSV is built from the raw file without a fetch; a
\* fetch happens only with both missing; and fetch, transform, CSV write and
\* read happen at most once each, in this order.
C5_FetchIfMissing ==
    LoadedFromUnloaded =>
        /\ CsvPath(catalog_type) \in DOMAIN pre.disk =>
              ~Did("_build") /\ ~Did("urlretrieve") /\ ~Did("to_csv")
        /\ (/\ CsvPath(catalog_type) \notin DOMAIN pre.disk
            /\ RawPath(catalog_type) \in DOMAIN pre.disk) =>
              /\ Did("_build") /\ ~Did("urlretrieve")
              /\ Did("_transform_astdys_catalog")
              /\ disk[RawPath(catalog_type)] = pre.disk[RawPath(catalog_type)]
              /\ Succeeded =>
                    disk[CsvPath(catalog_type)] =
                        to_csv(_transform_astdys_catalog(
                                   pre.disk[RawPath(catalog_type)],
                                   catalogs_configs[catalog_type]))
        /\ Did("urlretrieve") =>
              /\ CsvPath(catalog_type) \notin DOMAIN pre.disk
              /\ RawPath(catalog_type) \notin DOMAIN pre.disk
        /\ (/\ CsvPath(catalog_type) \notin DOMAIN pre.disk
            /\ RawPath(catalog_type) \notin DOMAIN pre.disk) => Did("urlretrieve")
        /\ Before("urlretrieve", "_transform_astdys_catalog")
        /\ Before("_transform_astdys_catalog", "to_csv")
        /\ Before("to_csv", "read_csv")
        /\ Did("to_csv") => Did("_transform_astdys_catalog")
        /\ \A e \in {"urlretrieve", "_transform_astdys_catalog", "to_csv", "read_csv"} :
              Did(e) => DidOnce(e)

\* a load from the unloaded state fetched, transformed, wrote and read
C5_Witness ==
    /\ LoadedFromUnloaded /\ Succeeded
    /\ call.trace = <<"load", "_build", "urlretrieve", "_transform_astdys_catalog",
                      "to_csv", "read_csv">>

\* C6: every rebuild() fetches, after deleting the raw file if there is one;
\* if it returns, the raw file is a file of the server and the cached CSV is
\* its transform.
C6_RebuildFetches ==
    call.op = "rebuild" =>
        /\ DidOnce("urlretrieve")
        /\ RawPath(catalog_type) \in DOMAIN pre.disk <=> Did("unlink")
        /\ Before("unlink", "urlretrieve")
        /\ Succeeded =>
              /\ RawPath(catalog_type) \in DOMAIN disk
              /\ \E v \in Versions :
                    disk[RawPath(catalog_type)] =
                        Server(catalogs_configs[catalog_type].url, v)
              /\ CsvPath(catalog_type) \in DOMAIN disk
              /\ disk[CsvPath(catalog_type)] =
                    to_csv(_transform_astdys_catalog(disk[RawPath(catalog_type)],
                                                     catalogs_configs[catalog_type]))

\* rebuild() replaced a raw file and a cached CSV that were there by others
C6_Witness ==
    /\ call.op = "rebuild" /\ Succeeded
    /\ RawPath(catalog_type) \in DOMAIN pre.disk
    /\ CsvPath(catalog_type) \in DOMAIN pre.disk
    /\ pre.disk[RawPath(catalog_type)] # disk[RawPath(catalog_type)]
    /\ pre.disk[CsvPath(catalog_type)] # disk[CsvPath(catalog_type)]

\* the cached CSV of the current catalog type is as it was before the last call
CsvUntouched ==
    /\ CsvPath(catalog_type) \in DOMAIN disk <=> CsvPath(catalog_type) \in DOMAIN pre.disk
    /\ CsvPath(catalog_type) \in DOMAIN disk =>
          disk[CsvPath(catalog_type)] = pre.disk[CsvPath(catalog_type)]

\* C7: a call in which _build() ran and which raised leaves the cached CSV of
\* the current catalog type as it was, there or not; and a CSV is written only
\* after the transform, as the transform of the raw file.
C7_NoPartialCatalog ==
    Did("_build") =>
        /\ ~Succeeded => CsvUntouched /\ ~Did("to_csv")
        /\ Did("to_csv") =>
              /\ Before("_transform_astdys_catalog", "to_csv")
              /\ Did("_transform_astdys_catalog")
              /\ ~IsError(_transform_astdys_catalog(disk[RawPath(catalog_type)],
                                                    catalogs_configs[catalog_type]))
              /\ disk[CsvPath(catalog_type)] =
                    to_csv(_transform_astdys_catalog(disk[RawPath(catalog_type)],
                                                     catalogs_configs[catalog_type]))

\* a direct _build() whose fetch raised, with a cached CSV in place
C7_Witness ==
    /\ Did("_build") /\ ~Succeeded
    /\ Did("urlretrieve") /\ ~Did("_transform_astdys_catalog")
    /\ CsvPath(catalog_type) \in DOMAIN pre.disk
    /\ RawPath(catalog_type) \in DOMAIN disk

\* the rows of the table t whose identifier is the text name_str
RowsNamed(t, name_str) ==
    {r \in 1..Len(t.rows) : t.rows[r][ColIndex(t.columns, "name")] = Txt(name_str)}

\* the last call was search() with one int or str, or with a list, made with
\* a table loaded for the current catalog type
SearchedOne ==
    /\ call.op = "search" /\ call.args.t \in {"int", "str"}
    /\ pre.catalog_type \in DOMAIN pre.catalogs

SearchedList ==
    /\ call.op = "search" /\ call.args.t = "list"
    /\ pre.catalog_type \in DOMAIN pre.catalogs

\* C8: search(identifier) on a loaded table raises nothing; it returns None
\* exactly when no row's identifier is the text str(identifier), and
\* otherwise the fields of a row whose identifier is that text.
C8_SingleSearch ==
    SearchedOne =>
        /\ Succeeded
        /\ call.ret = None <=>
              RowsNamed(pre.catalogs[pre.catalog_type], str(call.args)) = {}
        /\ call.ret # None =>
              /\ call.ret.k = "row"
              /\ call.ret.fields["name"] = Txt(str(call.args))
              /\ \E r \in RowsNamed(pre.catalogs[pre.catalog_type], str(call.args)) :
                    call.ret.fields =
                        RowDict(pre.catalogs[pre.catalog_type],
                                pre.catalogs[pre.catalog_type].rows[r])

\* search("01") found nothing in a table that has the identifier "1"
C8_Witness ==
    /\ SearchedOne /\ call.args = PyStr(<<"0", "1">>)
    /\ call.ret = None
    /\ RowsNamed(pre.catalogs[pre.catalog_type], Chars1) # {}

\* the identifiers of the table t
NamesOf(t) ==
    {t.rows[r][ColIndex(t.columns, "name")].s :
        r \in {r0 \in 1..Len(t.rows) : t.rows[r0][ColIndex(t.columns, "name")].k = "txt"}}

\* C9: search(list) on a loaded table raises nothing and returns a mapping
\* whose keys are the texts str(x), x in the list, that are identifiers of the
\* table, each mapped to the fields of a row of that identifier.
C9_BatchSearch ==
    SearchedList =>
        /\ Succeeded
        /\ call.ret.k = "dict"
        /\ DOMAIN call.ret.items =
              {str(call.args.items[i]) : i \in 1..Len(call.args.items)}
              \cap NamesOf(pre.catalogs[pre.catalog_type])
        /\ \A n \in DOMAIN call.ret.items :
              \E r \in RowsNamed(pre.catalogs[pre.catalog_type], n) :
                  call.ret.items[n] =
                      RowDict(pre.catalogs[pre.catalog_type],
                              pre.catalogs[pre.catalog_type].rows[r])

\* a list of two identifiers, the second of which alone is in the table
C9_Witness ==
    /\ SearchedList /\ Len(call.args.items) = 2
    /\ DOMAIN call.ret.items = {str(call.args.items[2])}
    /\ call.args.items[1] # call.args.items[2]

\* C10: search_by_axis with axis <= 0 or sigma <= 0 raises ValueError before
\* any load: it does no I/O and leaves catalog_type, catalogs and the files as
\* they were, a table being loaded or not.
C10_AxisValidatedFirst ==
    (call.op = "search_by_axis" /\ (call.args[1] <= 0 \/ call.args[2] <= 0)) =>
        /\ call.error = "ValueError"
        /\ call.trace = <<>>
        /\ catalog_type = pre.catalog_type
        /\ catalogs = pre.catalogs
        /\ disk = pre.disk

\* search_by_axis(1.0, 0) was refused while no table was loaded
C10_Witness ==
    /\ call.op = "search_by_axis" /\ call.args[1] > 0 /\ call.args[2] = 0
    /\ call.error = "ValueError"
    /\ WasUnloaded

\* the rows of the table t whose semi-major axis lies in [lo, hi]
RowsWithin(t, lo, hi) ==
    {r \in 1..Len(t.rows) :
        /\ t.rows[r][ColIndex(t.columns, "a")].k = "num"
        /\ t.rows[r][ColIndex(t.columns, "a")].n >= lo
        /\ t.rows[r][ColIndex(t.columns, "a")].n <= hi}

\* the j-th smallest element of the set of row numbers I
Nth(I, j) == CHOOSE r \in I : Cardinality({r2 \in I : r2 <= r}) = j

\* the last call was search_by_axis with axis > 0 and sigma > 0, made with a
\* table loaded for the current catalog type
SearchedAxis ==
    /\ call.op = "search_by_axis" /\ call.args[1] > 0 /\ call.args[2] > 0
    /\ pre.catalog_type \in DOMAIN pre.catalogs

\* C11: search_by_axis(axis, sigma) with axis > 0 and sigma > 0 on a loaded
\* table raises nothing and returns a table of the same columns whose rows are
\* exactly the rows with axis - sigma <= a <= axis + sigma, both bounds
\* included, in table order; with no such row the table is empty.  The call
\* search_by_axis(axis) is the call with sigma = DEFAULT_SIGMA (0.1).
C11_RangeSearch ==
    SearchedAxis =>
        /\ Succeeded
        /\ call.ret.k = "table"
        /\ call.ret.columns = pre.catalogs[pre.catalog_type].columns
        /\ Len(call.ret.rows) =
              Cardinality(RowsWithin(pre.catalogs[pre.catalog_type],
                                     call.args[1] - call.args[2],
                                     call.args[1] + call.args[2]))
        /\ \A j \in 1..Len(call.ret.rows) :
              call.ret.rows[j] =
                  pre.catalogs[pre.catalog_type].rows[
                      Nth(RowsWithin(pre.catalogs[pre.catalog_type],
                                     call.args[1] - call.args[2],
                                     call.args[1] + call.args[2]), j)]
        /\ catalogs = pre.catalogs

\* a range search returned a row on each bound of its interval and left a
\* row out
C11_Witness ==
    /\ SearchedAxis /\ Succeeded
    /\ \E i, j \in 1..Len(call.ret.rows) :
          /\ call.ret.rows[i][ColIndex(call.ret.columns, "a")] =
                Num(call.args[1] - call.args[2])
          /\ call.ret.rows[j][ColIndex(call.ret.columns, "a")] =
                Num(call.args[1] + call.args[2])
    /\ Len(call.ret.rows) < Len(pre.catalogs[pre.catalog_type].rows)

\* the last call asked for the epoch of the catalog
AskedEpoch == call.op \in {"get_catalog_time", "get_catalog_datetime"}

\* the descriptor of catalog type t has a column named epoch
HasEpochColumn(t) ==
    \E i \in 1..Len(configs[t].columns) : configs[t].columns[i] = "epoch"

\* the table of the current catalog type is loaded and has the identifier
\* column that search() looks in
Searchable ==
    /\ catalog_type \in DOMAIN catalogs
    /\ HasColumn(catalogs[catalog_type], "name")

\* the epoch field of the first row of t whose identifier is "1"
EpochOfOne(t) ==
    t.rows[Nth(RowsNamed(t, Chars1), 1)][ColIndex(t.columns, "epoch")]

\* the time conversion that the call op applies to the epoch field e, on
\* the platform libc
Converted(op, e, libc) ==
    IF op = "get_catalog_time" THEN convert_mjd_to_date(e, libc)
    ELSE convert_mjd_to_datetime(e)

\* the last call raised what the conversion v raised, or returned its value
Gave(v) == IF IsError(v) THEN call.error = v.e ELSE Succeeded /\ call.ret = v

\* the last call gave the time conversion of the epoch field e
GaveConverted(e) == \E libc \in Platforms : Gave(Converted(call.op, e, libc))

RawData ==
    SubSeq(disk[configs[catalog_type].original_filename].lines,
           configs[catalog_type].skip_rows + 1,
           Len(disk[configs[catalog_type].original_filename].lines))

\* the text of a raw token, its single quotes removed
Unquoted(f) ==
    SelectSeq(IF f.k = "num" THEN IntStr(f.n) ELSE f.s, LAMBDA ch : ch # "'")

\* the last call built the cached CSV and read it into memory
BuiltAndLoaded ==
    /\ Did("to_csv") /\ Did("read_csv")
    /\ catalog_type \in DOMAIN catalogs

\* C13: after a call that built the cached CSV and loaded it, whatever the
\* name of the descriptor's first column ('name' or 'num'), the table has one
\* row per data line of the raw file, in the same order; the first field of
\* each row is the text of the line's first token without its single quotes,
\* as text and not as a number; and search() of that text returns a row of
\* that identifier.
C13_IdentifierRoundTrip ==
    BuiltAndLoaded =>
        /\ Len(catalogs[catalog_type].rows) = Len(RawData)
        /\ \A r \in 1..Len(RawData) :
              /\ catalogs[catalog_type].rows[r][1] = Txt(Unquoted(RawData[r][1]))
              /\ HasColumn(catalogs[catalog_type], "name")
              /\ lookup(catalogs[catalog_type], PyStr(Unquoted(RawData[r][1]))) # None
              /\ lookup(catalogs[catalog_type],
                        PyStr(Unquoted(RawData[r][1]))).fields["name"] =
                    Txt(Unquoted(RawData[r][1]))

\* the column names of the descriptor cfg that do not start with del_ and
\* are not epoch, in the descriptor's order
Retained(cfg) ==
    SelectSeq(cfg.columns, LAMBDA c : c \notin {"del_1", "del_2", "del_3", "epoch"})

\* the cached CSV of the current catalog type
CachedCsv == disk[configs[catalog_type].filename]

\* C14: whenever the transform returns (its table is then written to the
\* cached CSV), the columns of the table are the descriptor's column names
\* without those that start with del_, in the descriptor's order, except
\* that epoch, if it is one of them, comes last; every row has one field per
\* column.
C14_TransformSchema ==
    Did("to_csv") =>
        /\ CachedCsv.columns =
              Retained(configs[catalog_type])
              \o (IF HasEpochColumn(catalog_type) THEN <<"epoch">> ELSE <<>>)
        /\ CachedCsv.columns[1] = configs[catalog_type].columns[1]
        /\ \A r \in 1..Len(CachedCsv.rows) :
              Len(CachedCsv.rows[r]) = Len(CachedCsv.columns)

\* with the descriptors of the test suite, one transform dropped the del_
\* columns around lce and another moved epoch from the second place to the
\* last
C14_Witness ==
    /\ Did("to_csv")
    /\ catalog2.filename \in DOMAIN disk
    /\ disk[catalog2.filename].columns = <<"num", "mag", "a", "e", "sinI", "n", "lce">>
    /\ catalog1.filename \in DOMAIN disk
    /\ disk[catalog1.filename].columns =
          <<"num", "a", "e", "inc", "Omega", "omega", "M", "epoch">>

\* the datetime d1 is not after the datetime d2
NotAfter(d1, d2) ==
    \/ d1.year < d2.year
    \/ d1.year = d2.year /\ d1.month < d2.month
    \/ d1.year = d2.year /\ d1.month = d2.month /\ d1.day < d2.day
    \/ /\ d1.year = d2.year /\ d1.month = d2.month /\ d1.day = d2.day
       /\ d1.hour * 3600 + d1.minute * 60 + d1.second
              <= d2.hour * 3600 + d2.minute * 60 + d2.second

\* dt is a date of the calendar, mjd hundredths of a day after
\* 1858-11-17 00:00:00
IsBasePlus(dt, mjd) ==
    /\ dt.month \in 1..12 /\ dt.day \in 1..DaysInMonth(dt.year, dt.month)
    /\ toordinal(dt.year, dt.month, dt.day) - toordinal(1858, 11, 17) = mjd \div 100
    /\ dt.hour \in 0..23 /\ dt.minute \in 0..59 /\ dt.second \in 0..59
    /\ (dt.hour * 3600 + dt.minute * 60 + dt.second) * 100 = (mjd % 100) * 24 * 3600

\* a returned convert_mjd_to_datetime(mjd) is the base date plus mjd days
MjdIsBasePlusDays ==
    (call.op = "convert_mjd_to_datetime" /\ Succeeded) =>
        /\ call.ret.k = "datetime"
        /\ IsBasePlus(call.ret, call.args.n)
        /\ call.args.n = 0 => call.ret = DateTime(1858, 11, 17, 0)
        /\ call.args.n = 5921500 => call.ret = DateTime(2021, 1, 1, 0)

\* a returned convert_mjd_to_datetime(mjd) is not before the conversion of
\* any smaller mjd
MjdMonotonic ==
    (call.op = "convert_mjd_to_datetime" /\ Succeeded) =>
        \A m \in Mjds :
            (m <= call.args.n /\ ~IsError(convert_mjd_to_datetime(Num(m)))) =>
                NotAfter(convert_mjd_to_datetime(Num(m)), call.ret)

\* the number written at the places from..to of the text s, or -1 if they
\* are not all digits
Field(s, from, to) ==
    IF \A i \in from..to : IsDigit(s[i]) THEN NatVal(SubSeq(s, from, to)) ELSE 0 - 1

\* the text s reads YYYY-MM-DD HH:MM:SS and names the datetime dt
Reads(s, dt) ==
    /\ Len(s) = 19
    /\ s[5] = "-" /\ s[8] = "-" /\ s[11] = " " /\ s[14] = ":" /\ s[17] = ":"
    /\ Field(s, 1, 4) = dt.year /\ Field(s, 6, 7) = dt.month
    /\ Field(s, 9, 10) = dt.day /\ Field(s, 12, 13) = dt.hour
    /\ Field(s, 15, 16) = dt.minute /\ Field(s, 18, 19) = dt.second

\* a returned convert_mjd_to_date(mjd) is the text YYYY-MM-DD HH:MM:SS of
\* the base date plus mjd days
MjdDateFormat ==
    (call.op = "convert_mjd_to_date" /\ Succeeded) =>
        /\ call.ret.k = "txt"
        /\ Reads(call.ret.s, convert_mjd_to_datetime(call.args))
        /\ IsBasePlus(convert_mjd_to_datetime(call.args), call.args.n)

\* C15: convert_mjd_to_datetime(mjd) is 1858-11-17 00:00:00 plus mjd days
\* (mjd 0 gives 1858-11-17 00:00:00 and mjd 59215 gives 2021-01-01
\* 00:00:00) and is monotonic non-decreasing in mjd, and
\* convert_mjd_to_date(mjd) is the same instant written as
\* YYYY-MM-DD HH:MM:SS.
C15_MjdConversion == MjdIsBasePlusDays /\ MjdMonotonic /\ MjdDateFormat

\* some data line of the raw file of the current catalog type has fewer or
\* more fields than the descriptor has column names
SomeLineMiscounted ==
    \E r \in 1..Len(RawData) : Len(RawData[r]) # Len(configs[catalog_type].columns)

\* C16: a transform of a raw file in which some data line has fewer or more
\* fields than the descriptor has column names raises, so that the call
\* that built fails and writes no cached CSV.
C16_ColumnCountChecked ==
    (Did("_transform_astdys_catalog") /\ SomeLineMiscounted) =>
        /\ ~Succeeded
        /\ call.error \in {"ParserError", "ValueError"}
        /\ ~Did("to_csv")

\* the last call was a conversion of a finite mjd
ConvertedMjd ==
    /\ call.op \in {"convert_mjd_to_datetime", "convert_mjd_to_date"}
    /\ call.args.k = "num"

\* the day mjd hundredths of a day after 1858-11-17 is a day of the years
\* 1 to 9999
InDatetimeRange(mjd) ==
    /\ toordinal(1858, 11, 17) + mjd \div 100 >= toordinal(1, 1, 1)
    /\ toordinal(1858, 11, 17) + mjd \div 100 <= toordinal(9999, 12, 31)

\* C17 as claimed: the conversion of a finite mjd, however large, returns.
C17_NoErrorConditions == ConvertedMjd => Succeeded

\* C17 as amended: the conversion of a finite mjd returns exactly when
\* 1858-11-17 plus mjd days is a day of the years 1 to 9999, the range of
\* datetime, and else raises OverflowError.
C17_FailsOutsideRange ==
    ConvertedMjd =>
        /\ Succeeded <=> InDatetimeRange(call.args.n)
        /\ ~Succeeded => call.error = "OverflowError" /\ call.ret = None
        /\ Succeeded => call.ret.k \in {"datetime", "txt"}

\* the conversion of mjd 2973484.0, the day after 9999-12-31, was refused
C17_Witness ==
    /\ ConvertedMjd
    /\ call.args.n = 297348400
    /\ call.error = "OverflowError"

\* the last call was one of the queries, made with a table loaded for the
\* current catalog type
QueriedLoaded ==
    /\ call.op \in {"search", "search_by_axis", "get_catalog", "get_catalog_time",
                    "get_catalog_datetime"}
    /\ ~WasUnloaded

\* C18: a query made while a table is loaded for the current catalog type
\* does no I/O (no load, build, fetch or read) and leaves catalog_type, the
\* loaded tables and the files as they were, whatever has happened to the
\* cached CSV and the raw file since the load; search and get_catalog answer
\* from that table.  A loaded table is never dropped, and is replaced only
\* by load() or set_type(), for the catalog type they load.
C18_LoadedTablesPersist ==
    /\ QueriedLoaded =>
          /\ call.trace = <<>>
          /\ catalog_type = pre.catalog_type
          /\ catalogs = pre.catalogs
          /\ disk = pre.disk
          /\ (call.op = "search" /\ Succeeded) =>
                call.ret = lookup(pre.catalogs[pre.catalog_type], call.args)
          /\ call.op = "get_catalog" =>
                Succeeded /\ call.ret = pre.catalogs[pre.catalog_type]
    /\ \A t \in DOMAIN pre.catalogs :
          /\ t \in DOMAIN catalogs
          /\ catalogs[t] # pre.catalogs[t] =>
                /\ call.op \in {"load", "set_type"}
                /\ t = catalog_type
                /\ Did("read_csv")

\* a search found its row in the loaded table after the cached CSV and the
\* raw file had both been deleted
C18_Witness ==
    /\ call.op = "search" /\ ~WasUnloaded /\ Succeeded
    /\ call.ret # None
    /\ CsvPath(catalog_type) \notin DOMAIN disk
    /\ RawPath(catalog_type) \notin DOMAIN disk

\* the step is a call of rebuild(): it leaves catalog_type and the loaded
\* tables as they were, whether it returns or raises
RebuildKeepsMemory ==
    call'.op = "rebuild" =>
        /\ catalog_type' = catalog_type
        /\ catalogs' = catalogs

\* the step is a search or a get_catalog that follows a rebuild() that
\* returned, a table being loaded: it is answered, without I/O, from the
\* table that was loaded before the rebuild
AnsweredFromTableBeforeRebuild ==
    (/\ call.op = "rebuild" /\ Succeeded
     /\ pre.catalog_type \in DOMAIN pre.catalogs
     /\ call'.op \in {"search", "get_catalog"}) =>
        /\ call'.error = "none"
        /\ call'.trace = <<>>
        /\ call'.ret =
              IF call'.op = "search"
              THEN lookup(pre.catalogs[pre.catalog_type], call'.args)
              ELSE pre.catalogs[pre.catalog_type]

\* C19: rebuild() leaves the current catalog_type and every loaded table
\* unchanged, and the queries that follow a rebuild() that returned are
\* answered from the table loaded before it.
C19_RebuildKeepsMemory ==
    [][RebuildKeepsMemory /\ AnsweredFromTableBeforeRebuild]_vars

\* rebuild() returned and the table in memory is not what the new cached
\* CSV holds
C19_Witness ==
    /\ call.op = "rebuild" /\ Succeeded
    /\ catalog_type \in DOMAIN catalogs
    /\ catalogs[catalog_type] # read_csv(disk[CsvPath(catalog_type)])

\* C20: set_type(t) for a known catalog type t makes t the current catalog
\* type before it loads and does not undo that: if the call raises, the
\* current catalog type is t all the same, and the loaded tables, that of t
\* included, are as they were before the call.
C20_SetTypeNoRollback ==
    (call.op = "set_type" /\ call.args \in DOMAIN catalogs_configs) =>
        /\ catalog_type = call.args
        /\ Did("load") /\ call.trace[1] = "load"
        /\ ~Succeeded => catalogs = pre.catalogs

\* set_type('synthetic') raised because the fetch failed, the osculating
\* table being loaded: the current catalog type is 'synthetic', and has no
\* table
C20_Witness ==
    /\ call.op = "set_type" /\ call.args = "synthetic"
    /\ call.error = "Exception" /\ Did("urlretrieve")
    /\ pre.catalog_type = "osculating"
    /\ "osculating" \in DOMAIN pre.catalogs
    /\ catalog_type = "synthetic"
    /\ "synthetic" \notin DOMAIN catalogs
    /\ catalogs = pre.catalogs

====
